---- MODULE Spec2Model ----
(***************************************************************************)
(* A model of sage/graphs/bliss.pyx, the interface between Sage graphs and *)
(* the bliss canonical-labelling engine: canonical_form,                   *)
(* canonical_form_from_edge_list, automorphism_group, the labelled-edge    *)
(* builders and the add_gen callback.                                      *)
(***************************************************************************)
EXTENDS Integers, Sequences, FiniteSets, TLC

VARIABLES pc, inp, loc, el, bg, aut, heap, ret

vars == <<pc, inp, loc, el, bg, aut, heap, ret>>

(***************************************************************************)
(* Bounds of the model.                                                    *)
(***************************************************************************)
\* largest number of vertices of a graph handed to canonical_form
MaxN == 3
\* vertex identifiers are drawn from 0..MaxId
MaxId == 3
\* edge label values are drawn from 1..MaxLabel
MaxLabel == 2
\* largest number of arcs of a digraph handed to canonical_form
MaxArcs == 2
\* largest number of generators the engine reports in one search
MaxGens == 2
\* largest label count of the calls with a large vertex count
MaxCapLnr == 8
\* largest vertex count handed to canonical_form_from_edge_list
MaxVnr == 2
\* largest number of edges handed to canonical_form_from_edge_list
MaxEnr == 2
\* largest label count handed to canonical_form_from_edge_list
MaxLnr == 4

(***************************************************************************)
(* Python and numpy helpers.                                               *)
(***************************************************************************)
Range(s) == {s[i] : i \in DOMAIN s}

Min(S) == CHOOSE x \in S : \A y \in S : x <= y

\* sorted(S) for a set of integers
RECURSIVE SortedInts(_)
SortedInts(S) ==
    IF S = {} THEN <<>> ELSE <<Min(S)>> \o SortedInts(S \ {Min(S)})

\* Python's tuple comparison on triples of integers: a < b
TripleLess(a, b) ==
    \/ a[1] < b[1]
    \/ a[1] = b[1] /\ a[2] < b[2]
    \/ a[1] = b[1] /\ a[2] = b[2] /\ a[3] < b[3]

\* insert the triple t into the sorted list s
RECURSIVE InsertTriple(_, _)
InsertTriple(t, s) ==
    IF s = <<>> THEN <<t>>
    ELSE IF TripleLess(t, Head(s)) THEN <<t>> \o s
    ELSE <<Head(s)>> \o InsertTriple(t, Tail(s))

\* sorted(s) for a list of triples
RECURSIVE SortedTriples(_)
SortedTriples(s) ==
    IF s = <<>> THEN <<>> ELSE InsertTriple(Head(s), SortedTriples(Tail(s)))

\* numpy.binary_repr(num) for num >= 0: the binary digits, most significant
\* first, without leading zeros ("0" for 0)
RECURSIVE binary_repr(_)
binary_repr(num) ==
    IF num < 2 THEN <<num>> ELSE binary_repr(num \div 2) \o <<num % 2>>

\* numpy.binary_repr(num, width): zero-padded on the left to width digits;
\* a width smaller than the number of digits is ignored
binary_repr_width(num, width) ==
    LET r == binary_repr(num) IN
    IF Len(r) >= width THEN r
    ELSE [k \in 1..width |-> IF k <= width - Len(r) THEN 0 ELSE r[k - (width - Len(r))]]

(***************************************************************************)
(* C integers.  A C int is kept as the value of its 32-bit two's           *)
(* complement pattern; an unsigned int is kept as the int with the same    *)
(* bit pattern.  Products are formed on 16-bit halves so that no           *)
(* intermediate value leaves the 32-bit range.                             *)
(***************************************************************************)
Half == 256 * 256

\* INT_MAX, the largest C int
IntMax == ((Half \div 2) - 1) * Half + (Half - 1)

\* the true product a*b of 0 <= a < 2^31 and 0 <= b < 2^15, as the pair
\* <<high part, low 16 bits>>: a*b = high * 2^16 + low
WideMul(a, b) ==
    LET lo == (a % Half) * b
        hi == (a \div Half) * b + (lo \div Half)
    IN <<hi, lo % Half>>

\* a*b in a C int (wrapping at 32 bits)
IntMul(a, b) ==
    LET w  == WideMul(a, b)
        hi == w[1] % Half
    IN IF hi >= (Half \div 2) THEN (hi - Half) * Half + w[2] ELSE hi * Half + w[2]

\* a*b is representable in a signed 32-bit int
FitsInt(a, b) == WideMul(a, b)[1] < (Half \div 2)

\* a*b is representable in an unsigned 32-bit int
FitsUnsigned(a, b) == WideMul(a, b)[1] < Half

(***************************************************************************)
(* The engine graph built by bliss_graph_from_labelled_edges and           *)
(* bliss_digraph_from_labelled_edges.  A built graph is the record         *)
(*   n      the vertex count handed to the constructor                     *)
(*   edges  the pairs handed to add_edge                                   *)
(*   colors the pairs <<vertex, colour>> handed to change_color            *)
(*   raised TRUE when a Python exception ended the builder early           *)
(***************************************************************************)
\* LogLnr as the number of digits of the largest label index, Lnr - 1
LogLnr_LastLabel(Lnr) == Len(binary_repr(Lnr - 1))

\* logLnr = len(numpy.binary_repr(Lnr))
LogLnr(Lnr) == Len(binary_repr(Lnr))

\* the vertex count handed to the constructor: Vnr, or Vnr*logLnr formed in
\* a C int
VertexCount(Vnr, Lnr) == IF Lnr = 1 THEN Vnr ELSE IntMul(Vnr, LogLnr(Lnr))

\* InitEdges with every copy joined to the base-layer copy
InitEdges_FromBase(Vnr, Lnr) ==
    IF Lnr = 1 THEN {}
    ELSE {<<i, j * Vnr + i>> : i \in 0..(Vnr - 1), j \in 1..(LogLnr(Lnr) - 1)}

\* the pass-through edges added right after the allocation
InitEdges(Vnr, Lnr) ==
    IF Lnr = 1 THEN {}
    ELSE {<<(j - 1) * Vnr + i, j * Vnr + i>> : i \in 0..(Vnr - 1), j \in 1..(LogLnr(Lnr) - 1)}

\* binrep: numpy.binary_repr(lab, logLnr) in the undirected builder,
\* numpy.binary_repr(lab) in the directed one
BinRep(num, width, digraph) ==
    IF digraph THEN binary_repr(num) ELSE binary_repr_width(num, width)

\* the i-th pass of the edge loop raises IndexError: labels[i] is missing,
\* or binrep[j] is read past the end of binrep
EdgeRaises(Lnr, labels, digraph, i) ==
    /\ Lnr # 1
    /\ \/ i > Len(labels)
       \/ /\ labels[i] # 0
          /\ Len(BinRep(labels[i] + 1, LogLnr(Lnr), digraph)) < LogLnr(Lnr)

\* EdgeAdds with the label index encoded as it is, without the increment
EdgeAdds_NoIncrement(Vnr, Lnr, Vout, Vin, labels, digraph, i) ==
    LET x      == Vout[i]
        y      == Vin[i]
        logLnr == LogLnr(Lnr)
    IN IF Lnr = 1 THEN {<<x, y>>}
       ELSE IF i > Len(labels) THEN {}
       ELSE IF labels[i] = 0 THEN {<<x, y>>}
       ELSE LET binrep == BinRep(labels[i], logLnr, digraph)
            IN {<<(logLnr - 1 - j) * Vnr + x, (logLnr - 1 - j) * Vnr + y>> :
                  j \in {k \in 0..(logLnr - 1) : k < Len(binrep) /\ binrep[k + 1] = 1}}

\* the pairs the i-th pass of the edge loop hands to add_edge (up to the
\* point where it raises, if it does)
EdgeAdds(Vnr, Lnr, Vout, Vin, labels, digraph, i) ==
    LET x      == Vout[i]
        y      == Vin[i]
        logLnr == LogLnr(Lnr)
    IN IF Lnr = 1 THEN {<<x, y>>}
       ELSE IF i > Len(labels) THEN {}
       ELSE IF labels[i] = 0 THEN {<<x, y>>}
       ELSE LET binrep == BinRep(labels[i] + 1, logLnr, digraph)
            IN {<<(logLnr - 1 - j) * Vnr + x, (logLnr - 1 - j) * Vnr + y>> :
                  j \in {k \in 0..(logLnr - 1) : k < Len(binrep) /\ binrep[k + 1] = 1}}

\* ColorCalls with the colour of the class in every layer
ColorCalls_SameColour(Vnr, Lnr, partition) ==
    LET part == IF partition = <<>> THEN <<0..(Vnr - 1)>> ELSE partition
        Pnr  == Len(part)
    IN UNION {{<<j * Vnr + v, i - 1>> :
                  v \in part[i], j \in 0..(LogLnr(Lnr) - 1)} : i \in 1..Pnr}

\* the pairs <<vertex, colour>> handed to change_color
ColorCalls(Vnr, Lnr, partition) ==
    LET part == IF partition = <<>> THEN <<0..(Vnr - 1)>> ELSE partition
        Pnr  == Len(part)
    IN IF Lnr = 1
       THEN UNION {{<<v, i - 1>> : v \in part[i]} : i \in 1..Pnr}
       ELSE UNION {{<<j * Vnr + v, j * Pnr + (i - 1)>> :
                       v \in part[i], j \in 0..(LogLnr(Lnr) - 1)} : i \in 1..Pnr}

\* the graph either builder builds; the two differ in binrep alone
FromLabelledEdges(Vnr, Lnr, Vout, Vin, labels, partition, digraph) ==
    LET Enr     == Len(Vout)
        failing == {i \in 1..Enr : EdgeRaises(Lnr, labels, digraph, i)}
        last    == IF failing = {} THEN Enr ELSE Min(failing)
    IN [n      |-> VertexCount(Vnr, Lnr),
        edges  |-> InitEdges(Vnr, Lnr) \cup
                   UNION {EdgeAdds(Vnr, Lnr, Vout, Vin, labels, digraph, i) : i \in 1..last},
        colors |-> IF failing = {} THEN ColorCalls(Vnr, Lnr, partition) ELSE {},
        raised |-> failing # {}]

bliss_graph_from_labelled_edges(Vnr, Lnr, Vout, Vin, labels, partition) ==
    FromLabelledEdges(Vnr, Lnr, Vout, Vin, labels, partition, FALSE)

bliss_digraph_from_labelled_edges(Vnr, Lnr, Vout, Vin, labels, partition) ==
    FromLabelledEdges(Vnr, Lnr, Vout, Vin, labels, partition, TRUE)

\* the vertex indices handed to the engine while a graph was built
Handed(g) ==
    {e[1] : e \in g.edges} \cup {e[2] : e \in g.edges} \cup {c[1] : c \in g.colors}

\* every index handed to the engine names a vertex of the graph
InRange(g) == \A v \in Handed(g) : 0 <= v /\ v < g.n

\* the colour of every vertex: 0 unless change_color set it
ColorOf(g) ==
    [v \in 0..(g.n - 1) |->
        IF \E c \in g.colors : c[1] = v
        THEN (CHOOSE c \in g.colors : c[1] = v)[2] ELSE 0]

(***************************************************************************)
(* The engine.  bliss is an external library; canonical_form is modelled   *)
(* as an ideal canonical labeller of the coloured graph it is handed: it   *)
(* answers with a labelling that numbers the vertices colour class by      *)
(* colour class, in ascending colour, and whose image of the graph is the  *)
(* representative of the graph's isomorphism class.  Which of the          *)
(* labellings with that image it answers with is left open.                *)
(***************************************************************************)
\* all orderings of the set S, as sequences
RECURSIVE PermSeqs(_)
PermSeqs(S) ==
    IF S = {} THEN {<<>>}
    ELSE UNION {{<<x>> \o s : s \in PermSeqs(S \ {x})} : x \in S}

\* all orderings of the vertices in V that list the colour classes in
\* ascending colour
RECURSIVE CellOrders(_, _)
CellOrders(V, color) ==
    IF V = {} THEN {<<>>}
    ELSE LET c0   == Min({color[v] : v \in V})
             cell == {v \in V : color[v] = c0}
         IN {s \o t : s \in PermSeqs(cell), t \in CellOrders(V \ cell, color)}

\* the labellings of n vertices that respect the colour order
Labelings(n, color) ==
    {[v \in 0..(n - 1) |-> (CHOOSE k \in 1..n : o[k] = v) - 1] :
        o \in CellOrders(0..(n - 1), color)}

\* an edge as the engine keeps it: an undirected edge has no orientation
EngineEdge(e, directed) ==
    IF directed \/ e[1] <= e[2] THEN e ELSE <<e[2], e[1]>>

\* the edge set of the graph relabelled by p
Image(edges, p, directed) ==
    {EngineEdge(<<p[e[1]], p[e[2]]>>, directed) : e \in edges}

\* the labellings the engine may answer with for the built graph g
CanonicalLabelings(g, directed) ==
    LET L      == Labelings(g.n, ColorOf(g))
        images == {Image(g.edges, p, directed) : p \in L}
        canon  == CHOOSE img \in images : TRUE
    IN {p \in L : Image(g.edges, p, directed) = canon}

\* the automorphisms of the built graph g: the colour-preserving
\* permutations that map the edge set onto itself
Automorphisms(g, directed) ==
    LET color == ColorOf(g)
        E     == {EngineEdge(e, directed) : e \in g.edges}
    IN {p \in Labelings(g.n, [v \in 0..(g.n - 1) |-> 0]) :
          /\ \A v \in 0..(g.n - 1) : color[p[v]] = color[v]
          /\ Image(g.edges, p, directed) = E}

(***************************************************************************)
(* canonical_form_from_edge_list                                           *)
(***************************************************************************)
\* a variable that holds nothing yet
Nothing == <<>>

\* the graph the call builds: a Digraph when directed, a Graph otherwise
BuiltGraph(a) ==
    IF a.directed
    THEN bliss_digraph_from_labelled_edges(a.Vnr, a.Lnr, a.Vout, a.Vin, a.labels, a.partition)
    ELSE bliss_graph_from_labelled_edges(a.Vnr, a.Lnr, a.Vout, a.Vin, a.labels, a.partition)

\* NewEdge without the exchange of the endpoints of an undirected edge
NewEdge_NoExchange(a, p, i) ==
    <<p[a.Vout[i]], p[a.Vin[i]],
      IF a.Lnr = 1 THEN (IF a.labels = <<>> THEN -1 ELSE a.labels[1]) ELSE a.labels[i]>>

\* the triple appended to new_edges for the i-th input edge
NewEdge(a, p, i) ==
    LET e   == p[a.Vout[i]]
        f   == p[a.Vin[i]]
        lab == IF a.Lnr = 1
               THEN (IF a.labels = <<>> THEN -1 ELSE a.labels[1])
               ELSE a.labels[i]
    IN IF a.directed THEN <<e, f, lab>>
       ELSE IF e > f THEN <<e, f, lab>> ELSE <<f, e, lab>>

\* NewEdges with the triples of parallel input edges merged into the first
NewEdges_Merged(a, p) ==
    LET keep == SortedInts({i \in 1..Len(a.Vout) :
                               \A k \in 1..(i - 1) : NewEdge(a, p, k) # NewEdge(a, p, i)})
    IN [j \in 1..Len(keep) |-> NewEdge(a, p, keep[j])]

\* new_edges after the loop over the input edges (the label None is -1)
NewEdges(a, p) == [i \in 1..Len(a.Vout) |-> NewEdge(a, p, i)]

\* Relabel over the endpoints of the edges only
Relabel_EndpointsOnly(a, p) == [v \in Range(a.Vout) \cup Range(a.Vin) |-> p[v]]

\* relabel = {v: aut[v] for v in range(Vnr)}
Relabel(a, p) == [v \in 0..(a.Vnr - 1) |-> p[v]]

\* the assertion on Vnr, then the builder allocates and fills the engine
\* graph.  An exception inside the builder leaves the builder without
\* releasing the graph; the builders are C functions that cannot hand an
\* exception to their caller, so the call either ends with the error or
\* the process dies on the graph pointer it never received.  An index out
\* of range handed to the engine is undefined behaviour of the engine.
EL_Build ==
    /\ pc = "el_build"
    /\ IF el.Vnr < 0
       THEN /\ pc' = "raised"
            /\ UNCHANGED <<bg, heap>>
       ELSE /\ bg' = BuiltGraph(el)
            /\ heap' = heap \cup {IF el.directed THEN "Digraph" ELSE "Graph"}
            /\ IF bg'.raised THEN pc' \in {"raised", "crashed"}
               ELSE IF ~InRange(bg') THEN pc' = "undefined"
               ELSE pc' = "el_canon"
    /\ UNCHANGED <<inp, loc, el, aut, ret>>

\* aut = g.canonical_form(s, empty_hook, NULL)
EL_Canon ==
    /\ pc = "el_canon"
    /\ aut' \in CanonicalLabelings(bg, el.directed)
    /\ pc' = "el_assemble"
    /\ UNCHANGED <<inp, loc, el, bg, heap, ret>>

\* the loop over the input edges and the relabelling dictionary
EL_Assemble ==
    /\ pc = "el_assemble"
    /\ el' = [el EXCEPT !.new_edges = NewEdges(el, aut),
                        !.relabel = IF el.certificate THEN Relabel(el, aut) ELSE Nothing]
    /\ pc' = "el_release"
    /\ UNCHANGED <<inp, loc, bg, aut, heap, ret>>

\* del d / del g, then the return to the caller
EL_Release ==
    /\ pc = "el_release"
    /\ heap' = heap \ {IF el.directed THEN "Digraph" ELSE "Graph"}
    /\ pc' = "el_return"
    /\ UNCHANGED <<inp, loc, el, bg, aut, ret>>

(***************************************************************************)
(* canonical_form                                                          *)
(***************************************************************************)
\* vert2int: G.vertices() lists the vertices in ascending order
Vert2Int(V) == [v \in V |-> Cardinality({w \in V : w < v})]

\* int2vert, as the list of the vertices
Int2Vert(V) == SortedInts(V)

\* edge_labels after the loop over E = G.edges(labels=True): the distinct
\* labels in the order in which the loop meets them
RECURSIVE EdgeLabels(_)
EdgeLabels(E) ==
    IF E = <<>> THEN <<>>
    ELSE LET before == EdgeLabels(SubSeq(E, 1, Len(E) - 1))
             lab    == E[Len(E)][3]
         IN IF lab \in Range(before) THEN before ELSE Append(before, lab)

\* edge_labels_rev[lab]: the position of lab in edge_labels
EdgeLabelsRev(E, lab) == (CHOOSE k \in 1..Len(EdgeLabels(E)) : EdgeLabels(E)[k] = lab) - 1

\* lab_relabels: the values of edge_labels_rev, listed by ascending key
LabRelabels(E) ==
    LET keys == SortedInts(Range(EdgeLabels(E)))
    IN [k \in 1..Len(keys) |-> EdgeLabelsRev(E, keys[k])]

\* labels = [lab_relabels[i] for i in labels]
Labels(E) == [i \in 1..Len(E) |-> LabRelabels(E)[EdgeLabelsRev(E, E[i][3]) + 1]]

\* the arguments of the call of canonical_form_from_edge_list
EdgeListArgs(V, E, directed, partition) ==
    [Vnr         |-> Cardinality(V),
     Vout        |-> [i \in 1..Len(E) |-> Vert2Int(V)[E[i][1]]],
     Vin         |-> [i \in 1..Len(E) |-> Vert2Int(V)[E[i][2]]],
     Lnr         |-> Len(EdgeLabels(E)),
     labels      |-> Labels(E),
     partition   |-> partition,
     directed    |-> directed,
     certificate |-> TRUE,
     new_edges   |-> Nothing,
     relabel     |-> Nothing]

\* the vertices are indexed, the labels are indexed, and
\* canonical_form_from_edge_list is called with the partition as it was given
CF_Enter ==
    /\ pc = "cf_enter"
    /\ loc' = [vert2int    |-> Vert2Int(inp.V),
               int2vert    |-> Int2Vert(inp.V),
               edge_labels |-> EdgeLabels(inp.E)]
    /\ el' = EdgeListArgs(inp.V, inp.E, inp.directed, inp.partition)
    /\ pc' = "el_build"
    /\ UNCHANGED <<inp, bg, aut, heap, ret>>

\* new_edges = [(x, y, edge_labels[lab]) for x, y, lab in new_edges]
CFNewEdges(new_edges, edge_labels) ==
    [i \in 1..Len(new_edges) |->
        <<new_edges[i][1], new_edges[i][2], edge_labels[new_edges[i][3] + 1]>>]

\* relabel = {int2vert[i]: j for i, j in relabel.iteritems()}
CFRelabel(relabel, int2vert) ==
    [v \in {int2vert[i + 1] : i \in DOMAIN relabel} |->
        relabel[CHOOSE i \in DOMAIN relabel : int2vert[i + 1] = v]]

\* GraphVertices without the call of add_vertices
GraphVertices_EdgesOnly(new_edges, vert2int) ==
    {e[1] : e \in Range(new_edges)} \cup {e[2] : e \in Range(new_edges)}

\* the vertices of the graph made from new_edges, after
\* G.add_vertices(vert2int.values())
GraphVertices(new_edges, vert2int) ==
    {e[1] : e \in Range(new_edges)} \cup {e[2] : e \in Range(new_edges)}
        \cup {vert2int[v] : v \in DOMAIN vert2int}

\* the labels and the vertex names are put back and the result is returned as a graph or as a sorted list of edges
CF_Finish ==
    /\ pc = "el_return"
    /\ inp.op = "canonical_form"
    /\ \E return_graph \in BOOLEAN, certificate \in BOOLEAN :
          ret' = [return_graph |-> return_graph,
                  certificate  |-> certificate,
                  edges    |-> LET ne == CFNewEdges(el.new_edges, loc.edge_labels)
                               IN IF return_graph THEN ne ELSE SortedTriples(ne),
                  vertices |-> IF return_graph
                               THEN GraphVertices(el.new_edges, loc.vert2int) ELSE {},
                  relabel  |-> IF certificate
                               THEN CFRelabel(el.relabel, loc.int2vert) ELSE Nothing]
    /\ pc' = "done"
    /\ UNCHANGED <<inp, loc, el, bg, aut, heap>>

(***************************************************************************)
(* The graphs handed to canonical_form: simple graphs and digraphs on at   *)
(* most MaxN vertices named by integers of 0..MaxId, every edge carrying a *)
(* label of 1..MaxLabel, with or without a partition of the vertices.      *)
(***************************************************************************)
LabelValues == 1..MaxLabel

VertexSets == {V \in SUBSET (0..MaxId) : Cardinality(V) <= MaxN}

\* the vertex pairs that can carry an edge
Pairs(V, directed) ==
    IF directed THEN {e \in V \X V : e[1] # e[2]} ELSE {e \in V \X V : e[1] < e[2]}

\* the elements of the set S in some order
RECURSIVE SeqOf(_)
SeqOf(S) ==
    IF S = {} THEN <<>>
    ELSE LET x == CHOOSE y \in S : TRUE IN <<x>> \o SeqOf(S \ {x})

\* G.edges(labels=True) for every graph on V: the edges sorted as tuples
EdgeLists(V, directed) ==
    LET S == {P \in SUBSET Pairs(V, directed) : directed => Cardinality(P) <= MaxArcs}
    IN UNION {{SortedTriples(SeqOf({<<e[1], e[2], f[e]>> : e \in P})) :
                 f \in [P -> LabelValues]} : P \in S}

\* the ordered partitions of V into non-empty classes
RECURSIVE OrderedPartitions(_)
OrderedPartitions(V) ==
    IF V = {} THEN {<<>>}
    ELSE UNION {{<<c>> \o r : r \in OrderedPartitions(V \ c)} : c \in (SUBSET V) \ {{}}}

(***************************************************************************)
(* The direct calls of canonical_form_from_edge_list: a vertex count, the  *)
(* two endpoint lists, a label count, a list of label indices that is      *)
(* complete, one entry short or (with one label) empty, a partition of the *)
(* vertex indices or none, and the two flags.  The indices are in range,   *)
(* as the function requires of its caller.                                 *)
(***************************************************************************)
\* the lists of length n over the set S
Lists(S, n) == [1..n -> S]

LabelLists(Lnr, Enr) ==
    Lists(0..(Lnr - 1), Enr)
        \cup (IF Enr > 0 THEN Lists(0..(Lnr - 1), Enr - 1) ELSE {})
        \cup (IF Lnr = 1 THEN {<<>>} ELSE {})

\* the calls with Vnr vertices, Enr edges and Lnr labels
CallsWith(Vnr, Enr, Lnr) ==
    {[Vnr |-> Vnr, Vout |-> Vout, Vin |-> Vin, Lnr |-> Lnr, labels |-> labels,
      partition |-> partition, directed |-> directed, certificate |-> certificate,
      new_edges |-> Nothing, relabel |-> Nothing] :
        Vout \in Lists(0..(Vnr - 1), Enr), Vin \in Lists(0..(Vnr - 1), Enr),
        labels \in LabelLists(Lnr, Enr),
        partition \in {<<>>} \cup OrderedPartitions(0..(Vnr - 1)),
        directed \in BOOLEAN, certificate \in BOOLEAN}

EdgeListCalls ==
    UNION {CallsWith(Vnr, Enr, Lnr) :
              Vnr \in (-1)..MaxVnr, Enr \in 0..MaxEnr, Lnr \in 0..MaxLnr}

\* the call returns new_edges, with relabel when certificate is set
EL_Return ==
    /\ pc = "el_return"
    /\ inp.op = "canonical_form_from_edge_list"
    /\ ret' = [certificate |-> el.certificate, edges |-> el.new_edges, relabel |-> el.relabel]
    /\ pc' = "done"
    /\ UNCHANGED <<inp, loc, el, bg, aut, heap>>

InitCanonicalForm ==
    /\ pc = "cf_enter"
    /\ \E V \in VertexSets, directed \in BOOLEAN :
         \E E \in EdgeLists(V, directed), partition \in {<<>>} \cup OrderedPartitions(V) :
            inp = [op |-> "canonical_form", V |-> V, E |-> E,
                   directed |-> directed, partition |-> partition]
    /\ el = Nothing

InitEdgeList ==
    /\ pc = "el_build"
    /\ inp = [op |-> "canonical_form_from_edge_list"]
    /\ el \in EdgeListCalls

Init ==
    /\ (InitCanonicalForm \/ InitEdgeList)
    /\ loc = Nothing
    /\ bg = Nothing
    /\ aut = Nothing
    /\ heap = {}
    /\ ret = Nothing

Next ==
    \/ CF_Enter
    \/ EL_Build
    \/ EL_Canon
    \/ EL_Assemble
    \/ EL_Release
    \/ EL_Return
    \/ CF_Finish

Spec == Init /\ [][Next]_vars

(***************************************************************************)
(* Properties of canonical_form.                                           *)
(***************************************************************************)
\* the number of entries of the list of triples s that carry the label lab
CountLabel(s, lab) == Cardinality({i \in DOMAIN s : s[i][3] = lab})

\* C1: the labels on the edges canonical_form returns are the labels on the
\* edges of G, each on as many edges as in G
C1_LabelMultisetPreserved ==
    (pc = "done" /\ inp.op = "canonical_form") =>
        /\ \A i \in DOMAIN ret.edges : \E j \in DOMAIN inp.E : ret.edges[i][3] = inp.E[j][3]
        /\ \A lab \in LabelValues : CountLabel(ret.edges, lab) = CountLabel(inp.E, lab)

\* canonical_form(G) hands the engine indices of its graph only, so that
\* what the call does is defined
Defined(V, E, directed, partition) ==
    LET g == BuiltGraph(EdgeListArgs(V, E, directed, partition))
    IN ~g.raised /\ InRange(g)

\* the sorted edge lists canonical_form(G) can return, over the answers the
\* engine may give
CanonicalForms(V, E, directed, partition) ==
    LET a == EdgeListArgs(V, E, directed, partition)
    IN {SortedTriples(CFNewEdges(NewEdges(a, p), EdgeLabels(E))) :
           p \in CanonicalLabelings(BuiltGraph(a), directed)}

\* the bijections from V onto another set of vertex names
Renamings(V) ==
    UNION {{r \in [V -> W] : \A u, v \in V : r[u] = r[v] => u = v} :
              W \in {X \in VertexSets : Cardinality(X) = Cardinality(V)}}

\* G.edges(labels=True) of the graph renamed by r
RenamedEdges(E, r, directed) ==
    SortedTriples([i \in 1..Len(E) |->
        LET x == r[E[i][1]]
            y == r[E[i][2]]
        IN IF directed \/ x < y THEN <<x, y, E[i][3]>> ELSE <<y, x, E[i][3]>>])

\* the partition renamed by r
RenamedPartition(partition, r) ==
    [i \in 1..Len(partition) |-> {r[v] : v \in partition[i]}]

\* C2: canonical_form returns the same sorted edge list for G and for every
\* colour-preserving renaming of G (of those on which the call is defined)
C2_IsomorphismInvariant ==
    (pc = "done" /\ inp.op = "canonical_form" /\ ~ret.return_graph) =>
        \A r \in Renamings(inp.V) :
            LET V == {r[v] : v \in inp.V}
                E == RenamedEdges(inp.E, r, inp.directed)
                partition == RenamedPartition(inp.partition, r)
            IN Defined(V, E, inp.directed, partition) =>
                  CanonicalForms(V, E, inp.directed, partition) = {ret.edges}

\* the vertices of G that no edge of G touches
Isolated(V, E) == {v \in V : \A i \in DOMAIN E : E[i][1] # v /\ E[i][2] # v}

\* C3: with return_graph, canonical_form returns a graph whose vertex set is
\* exactly {0, ..., N-1}
C3_VertexSetKept ==
    (pc = "done" /\ inp.op = "canonical_form" /\ ret.return_graph) =>
        ret.vertices = 0..(Cardinality(inp.V) - 1)

\* a graph with an isolated vertex and two labels has been returned
C3_Witness ==
    /\ pc = "done" /\ inp.op = "canonical_form" /\ ret.return_graph
    /\ Len(loc.edge_labels) > 1
    /\ Isolated(inp.V, inp.E) # {}
    /\ ret.vertices = 0..(Cardinality(inp.V) - 1)

\* f maps its domain one-to-one onto S
BijectionOnto(f, S) ==
    /\ {f[x] : x \in DOMAIN f} = S
    /\ \A x, y \in DOMAIN f : f[x] = f[y] => x = y

\* C4: with certificate, the relabelling of canonical_form_from_edge_list is
\* a bijection from the vertex indices [0, N) onto [0, N), and the
\* relabelling of canonical_form is a bijection from the vertices of G onto
\* [0, N)
C4_RelabelBijection ==
    /\ (pc \in {"el_release", "el_return", "done"} /\ el.certificate) =>
           /\ DOMAIN el.relabel = 0..(el.Vnr - 1)
           /\ BijectionOnto(el.relabel, 0..(el.Vnr - 1))
    /\ (pc = "done" /\ inp.op = "canonical_form" /\ ret.certificate) =>
           /\ DOMAIN ret.relabel = inp.V
           /\ BijectionOnto(ret.relabel, 0..(Cardinality(inp.V) - 1))

\* a relabelling has been returned for a graph with an isolated vertex whose
\* labels expanded it to more than one layer
C4_Witness ==
    /\ pc = "done" /\ inp.op = "canonical_form" /\ ret.certificate
    /\ bg.n > el.Vnr
    /\ Isolated(inp.V, inp.E) # {}
    /\ DOMAIN ret.relabel = inp.V

\* C7: every vertex index canonical_form hands to the engine lies in the
\* range of the engine graph's vertices
C7_IndicesInRange ==
    (inp.op = "canonical_form" /\ pc \notin {"cf_enter", "el_build"}) => InRange(bg)

\* C8: when canonical_form_from_edge_list has returned or has ended with an
\* error, the engine graph of the call has been released
C8_GraphReleased ==
    pc \in {"el_return", "done", "raised"} => heap = {}

\* C10: the i-th output triple holds the images of the endpoints of the i-th
\* input edge, in the order of the input when directed and larger index
\* first when undirected
C10_EndpointOrder ==
    pc \in {"el_release", "el_return", "done"} =>
        /\ Len(el.new_edges) = Len(el.Vout)
        /\ \A i \in 1..Len(el.Vout) :
              LET t == el.new_edges[i]
                  e == aut[el.Vout[i]]
                  f == aut[el.Vin[i]]
              IN IF el.directed THEN t[1] = e /\ t[2] = f
                 ELSE /\ t[1] >= t[2]
                      /\ (t[1] = e /\ t[2] = f) \/ (t[1] = f /\ t[2] = e)

\* an undirected call with more than one label has put the image of Vin[i]
\* first
C10_Witness ==
    /\ pc = "done" /\ ~el.directed /\ el.Lnr > 1
    /\ \E i \in 1..Len(el.Vout) :
          /\ aut[el.Vout[i]] < aut[el.Vin[i]]
          /\ el.new_edges[i][1] = aut[el.Vin[i]]
          /\ el.new_edges[i][2] = aut[el.Vout[i]]

\* G.edges(labels=True) of the graph made from new_edges: the edges sorted
\* as tuples, an undirected edge with its smaller endpoint first
GraphEdges(new_edges, directed) ==
    SortedTriples(SeqOf({IF directed \/ t[1] <= t[2] THEN t ELSE <<t[2], t[1], t[3]>> :
                            t \in Range(new_edges)}))

\* the graphs canonical_form(H, return_graph=True) can return for the graph
\* H on the vertices V with the edges E, over the answers the engine may
\* give
CanonicalGraphs(V, E, directed) ==
    LET a == EdgeListArgs(V, E, directed, <<>>)
    IN {[vertices |-> GraphVertices(NewEdges(a, p), Vert2Int(V)),
         edges    |-> GraphEdges(CFNewEdges(NewEdges(a, p), EdgeLabels(E)), directed)] :
           p \in CanonicalLabelings(BuiltGraph(a), directed)}

\* C11: canonical_form(H, return_graph=True) of the graph H that
\* canonical_form(G, return_graph=True) returned is H again: the same
\* vertices, the same edges, the same labels
C11_Idempotent ==
    (pc = "done" /\ inp.op = "canonical_form" /\ ret.return_graph /\ inp.partition = <<>>) =>
        LET H == [vertices |-> ret.vertices,
                  edges    |-> GraphEdges(ret.edges, inp.directed)]
        IN CanonicalGraphs(H.vertices, H.edges, inp.directed) = {H}

\* the label of the i-th output triple: labels[i], and with one label
\* labels[0], or None (-1) when the list of labels is empty
OutputLabel(a, i) ==
    IF a.Lnr = 1 THEN (IF a.labels = <<>> THEN -1 ELSE a.labels[1]) ELSE a.labels[i]

\* the i-th and the k-th input edge are the same edge
SameInputEdge(a, i, k) ==
    /\ a.Vout[i] = a.Vout[k]
    /\ a.Vin[i] = a.Vin[k]
    /\ OutputLabel(a, i) = OutputLabel(a, k)

\* C12: canonical_form_from_edge_list returns one triple for every input
\* edge, in the order of the input: the i-th triple holds the images of the
\* endpoints and the label of the i-th input edge, and equal input edges
\* give equal triples that are all kept
C12_OneTriplePerEdge ==
    /\ pc \in {"el_release", "el_return", "done"} =>
          /\ Len(el.new_edges) = Len(el.Vout)
          /\ \A i \in 1..Len(el.Vout) :
                /\ {el.new_edges[i][1], el.new_edges[i][2]} = {aut[el.Vout[i]], aut[el.Vin[i]]}
                /\ el.new_edges[i][3] = OutputLabel(el, i)
          /\ \A i, k \in 1..Len(el.Vout) :
                SameInputEdge(el, i, k) => el.new_edges[i] = el.new_edges[k]
    /\ (pc = "done" /\ inp.op = "canonical_form_from_edge_list") => ret.edges = el.new_edges

\* a call with two equal input edges among several labels has returned two
\* equal triples
C12_Witness ==
    /\ pc = "done" /\ inp.op = "canonical_form_from_edge_list"
    /\ el.Lnr > 1 /\ Len(el.Vout) = 2
    /\ SameInputEdge(el, 1, 2)
    /\ el.Vout[1] # el.Vin[1]
    /\ Len(ret.edges) = 2
    /\ ret.edges[1] = ret.edges[2]

(***************************************************************************)
(* Properties of the labelled-edge builders.                               *)
(***************************************************************************)
\* the layers that carry an edge of label index lab among b layers: the
\* base layer for lab = 0, else the positions of the binary digits 1 of
\* lab + 1, the least significant digit being layer 0
LabelLayers(lab, b) ==
    IF lab = 0 THEN {0} ELSE {k \in 0..(b - 1) : ((lab + 1) \div (2 ^ k)) % 2 = 1}

\* the i-th pass of the edge loop reads binrep past its end
ReadsPastBinrep(a, i) ==
    /\ a.labels[i] # 0
    /\ Len(BinRep(a.labels[i] + 1, LogLnr(a.Lnr), a.directed)) < LogLnr(a.Lnr)

\* the input edges the builder reaches with a label of their own
Labelled(a) == {i \in 1..Len(a.Vout) : i <= Len(a.labels)}

\* a graph has been built for a call with more than one label
BuiltLayered == pc \notin {"cf_enter", "el_build"} /\ el.Vnr >= 0 /\ el.Lnr > 1

\* C13: with more than one label, either builder adds for the input edge
\* (x, y, lab) exactly the edges between the copies of x and y in the layers
\* of the binary digits 1 of lab + 1 (in the base layer alone for lab = 0),
\* and reads no position outside the string of digits
C13_SameEncoding ==
    BuiltLayered =>
        \A i \in Labelled(el) :
            /\ ~ReadsPastBinrep(el, i)
            /\ EdgeAdds(el.Vnr, el.Lnr, el.Vout, el.Vin, el.labels, el.directed, i)
                  = {<<k * el.Vnr + el.Vout[i], k * el.Vnr + el.Vin[i]>> :
                        k \in LabelLayers(el.labels[i], LogLnr(el.Lnr))}

\* the layers in which the builder adds an edge for the i-th input edge
LayersOf(a, i) ==
    {k \in 0..(LogLnr(a.Lnr) - 1) :
        <<k * a.Vnr + a.Vout[i], k * a.Vnr + a.Vin[i]>>
            \in EdgeAdds(a.Vnr, a.Lnr, a.Vout, a.Vin, a.labels, a.directed, i)}

\* the layers in which the builder adds an edge of label index lab
LayersOfLabel(Lnr, lab, digraph) ==
    {e[1] : e \in EdgeAdds(1, Lnr, <<0>>, <<0>>, <<lab>>, digraph, 1)}

\* the label indices the builder encodes: all of [0, L), but for those on
\* which the directed builder reads binrep past its end
Encoded(Lnr, digraph) ==
    {lab \in 0..(Lnr - 1) : ~EdgeRaises(Lnr, <<lab>>, digraph, 1)}

Classes(a) == IF a.partition = <<>> THEN <<0..(a.Vnr - 1)>> ELSE a.partition

\* the vertex w is the copy of a vertex of class i in layer j
CopyOf(a, w, i, j) == \E v \in Classes(a)[i] : w = j * a.Vnr + v

\* a builder has finished for a call with more than one label whose
\* partition is a partition of the vertex indices
BuiltColoured ==
    /\ BuiltLayered
    /\ ~bg.raised
    /\ UNION Range(Classes(el)) = 0..(el.Vnr - 1)

\* C16: after a builder has finished with more than one label, b layers and
\* P classes, the copy j*N+v of a vertex v of the class i has the colour
\* j*P+i: all N*b vertices are coloured, copies in different layers or
\* classes have different colours, and the colours of a layer are below
\* those of the next
C16_LayerColours ==
    BuiltColoured =>
        LET color == ColorOf(bg)
            P     == Len(Classes(el))
            b     == LogLnr(el.Lnr)
        IN /\ bg.n = el.Vnr * b
           /\ {c[1] : c \in bg.colors} = 0..(bg.n - 1)
           /\ \A w \in 0..(bg.n - 1), i \in 1..P, j \in 0..(b - 1) :
                 CopyOf(el, w, i, j) => color[w] = j * P + (i - 1)
           /\ \A w, x \in 0..(bg.n - 1), i, k \in 1..P, j, l \in 0..(b - 1) :
                 (CopyOf(el, w, i, j) /\ CopyOf(el, x, k, l)) =>
                     /\ (i # k \/ j # l) => color[w] # color[x]
                     /\ l = j + 1 => color[w] < color[x]

\* a graph of several layers has been built and coloured for a partition
\* into several classes
C16_Witness ==
    /\ pc = "done" /\ BuiltColoured
    /\ Len(el.partition) > 1 /\ el.Lnr > 1 /\ el.Vnr > 1
    /\ \E c \in bg.colors : c[1] = bg.n - 1 /\ c[2] >= Len(el.partition)
    /\ \E c \in bg.colors : c[1] < el.Vnr /\ c[2] = Len(el.partition) - 1

\* the pass-through edges of N vertices in b layers
PassThrough(N, b) ==
    {<<(j - 1) * N + v, j * N + v>> : v \in 0..(N - 1), j \in 1..(b - 1)}

\* the layer of the vertex w of a graph of layers of N > 0 vertices
LayerOf(w, N) == w \div N

\* C17: with more than one label and b layers the builders create a graph
\* on N*b vertices whose edges between different layers are exactly the
\* N*(b-1) pass-through edges from (j-1)*N+v to j*N+v; every other edge
\* joins two copies of one layer
C17_PassThroughEdges ==
    BuiltLayered =>
        LET N == el.Vnr
            b == LogLnr(el.Lnr)
        IN /\ bg.n = N * b
           /\ PassThrough(N, b) \subseteq bg.edges
           /\ Cardinality(PassThrough(N, b)) = N * (b - 1)
           /\ \A e \in bg.edges :
                 /\ 0 <= e[1] /\ e[1] < N * b /\ 0 <= e[2] /\ e[2] < N * b
                 /\ e \in PassThrough(N, b) \/ LayerOf(e[1], N) = LayerOf(e[2], N)
                 /\ e \in PassThrough(N, b) => LayerOf(e[2], N) = LayerOf(e[1], N) + 1

\* a graph of three layers has been built with an edge in its top layer
C17_Witness ==
    /\ pc = "done" /\ BuiltLayered
    /\ LogLnr(el.Lnr) = 3 /\ el.Vnr = 2
    /\ bg.n = 6
    /\ {<<0, 2>>, <<1, 3>>, <<2, 4>>, <<3, 5>>} \subseteq bg.edges
    /\ \E e \in bg.edges : e[1] >= 4 /\ e[2] >= 4 /\ e[1] # e[2]

(***************************************************************************)
(* add_gen, the callback of find_automorphisms                             *)
(***************************************************************************)
\* the indices the inner loop visits after tmp, until aut[tmp] is marker
RECURSIVE CycleTail(_, _, _)
CycleTail(p, marker, tmp) ==
    IF p[tmp] = marker THEN <<>> ELSE <<p[tmp]>> \o CycleTail(p, marker, p[tmp])

\* IndexCycle with the indices of the cycle in ascending order
IndexCycle_Ascending(p, cur) == SortedInts(Range(<<cur>> \o CycleTail(p, cur, cur)))

\* the indices of the cycle that starts at cur
IndexCycle(p, cur) == <<cur>> \o CycleTail(p, cur, cur)

\* add_gen_omitting: the cycles of one point are not appended
RECURSIVE add_gen_omitting(_, _, _, _, _)
add_gen_omitting(n, p, int_to_vertex, cur, done) ==
    IF cur = n THEN <<>>
    ELSE IF cur \in done THEN add_gen_omitting(n, p, int_to_vertex, cur + 1, done)
    ELSE LET c == IndexCycle(p, cur)
         IN (IF Len(c) = 1 THEN <<>> ELSE <<[k \in 1..Len(c) |-> int_to_vertex[c[k] + 1]]>>)
               \o add_gen_omitting(n, p, int_to_vertex, cur, done \cup Range(c))

\* perm as the outer loop of add_gen leaves it, started at cur with the
\* indices in done marked: one tuple of vertices per pass
RECURSIVE add_gen(_, _, _, _, _)
add_gen(n, p, int_to_vertex, cur, done) ==
    IF cur = n THEN <<>>
    ELSE IF cur \in done THEN add_gen(n, p, int_to_vertex, cur + 1, done)
    ELSE LET c == IndexCycle(p, cur)
         IN <<[k \in 1..Len(c) |-> int_to_vertex[c[k] + 1]]>>
               \o add_gen(n, p, int_to_vertex, cur, done \cup Range(c))

(***************************************************************************)
(* automorphism_group                                                      *)
(***************************************************************************)
\* the classes of the partition, from the second on, that name a vertex
\* that is not in vert2int
BadClasses(V, partition) ==
    {i \in 2..Len(partition) : ~(partition[i] \subseteq V)}

\* AGColorCalls without any call of change_color
AGColorCalls_None(V, partition) == {}

\* the pairs <<vertex, colour>> bliss_graph and bliss_digraph hand to
\* change_color: the classes from the second on, up to the first class
\* that names an unknown vertex
AGColorCalls(V, partition) ==
    LET bad  == BadClasses(V, partition)
        last == IF bad = {} THEN Len(partition) ELSE Min(bad) - 1
    IN UNION {{<<Vert2Int(V)[v], i - 1>> : v \in partition[i]} : i \in 2..last}

\* the graph bliss_graph and bliss_digraph build for G
bliss_graph(V, E, partition) ==
    [n      |-> Cardinality(V),
     edges  |-> {<<Vert2Int(V)[E[i][1]], Vert2Int(V)[E[i][2]]>> : i \in DOMAIN E},
     colors |-> AGColorCalls(V, partition),
     raised |-> BadClasses(V, partition) # {}]

\* the graph is allocated and filled; a partition vertex that G does not
\* have raises KeyError inside the builder, which leaves without releasing
\* the graph
AG_Build ==
    /\ pc = "ag_build"
    /\ bg' = bliss_graph(inp.V, inp.E, inp.partition)
    /\ loc' = [vert2int |-> Vert2Int(inp.V), int2vert |-> Int2Vert(inp.V), gens |-> <<>>]
    /\ heap' = heap \cup {IF inp.directed THEN "Digraph" ELSE "Graph"}
    /\ IF bg'.raised THEN pc' \in {"raised", "crashed"} ELSE pc' = "ag_search"
    /\ UNCHANGED <<inp, el, aut, ret>>

\* find_automorphisms reports an automorphism of the built graph to add_gen
AG_Gen ==
    /\ pc = "ag_search"
    /\ Len(loc.gens) < MaxGens
    /\ aut' \in Automorphisms(bg, inp.directed)
    /\ loc' = [loc EXCEPT !.gens = Append(@, add_gen(bg.n, aut', loc.int2vert, 0, {}))]
    /\ UNCHANGED <<pc, inp, el, bg, heap, ret>>

\* del d / del g, and the generators are returned as a permutation group
AG_Finish ==
    /\ pc = "ag_search"
    /\ heap' = heap \ {IF inp.directed THEN "Digraph" ELSE "Graph"}
    /\ ret' = [gens |-> loc.gens]
    /\ pc' = "done"
    /\ UNCHANGED <<inp, loc, el, bg, aut>>

\* the partitions handed to automorphism_group: none, a partition of the
\* vertices of G, or a partition that also names one vertex G does not have
AGPartitions(V) ==
    {<<>>} \cup OrderedPartitions(V)
        \cup UNION {OrderedPartitions(V \cup {w}) : w \in (0..MaxId) \ V}

InitAut ==
    /\ pc = "ag_build"
    /\ \E V \in VertexSets, directed \in BOOLEAN :
         \E E \in EdgeLists(V, directed), partition \in AGPartitions(V) :
            inp = [op |-> "automorphism_group", V |-> V, E |-> E,
                   directed |-> directed, partition |-> partition]
    /\ loc = Nothing
    /\ el = Nothing
    /\ bg = Nothing
    /\ aut = Nothing
    /\ heap = {}
    /\ ret = Nothing

NextAut ==
    \/ AG_Build
    \/ AG_Gen
    \/ AG_Finish

SpecAut == InitAut /\ [][NextAut]_vars

(***************************************************************************)
(* Properties of automorphism_group and add_gen.                           *)
(***************************************************************************)
\* the image of the vertex v under the generator gen, a list of cycles
GenMap(gen, v) ==
    IF \E k \in DOMAIN gen : v \in Range(gen[k])
    THEN LET c == gen[CHOOSE k \in DOMAIN gen : v \in Range(gen[k])]
             j == CHOOSE i \in DOMAIN c : c[i] = v
         IN c[(j % Len(c)) + 1]
    ELSE v

\* G has an edge from x to y (between x and y when undirected)
HasEdge(E, directed, x, y) ==
    \E j \in DOMAIN E : \/ E[j][1] = x /\ E[j][2] = y
                        \/ ~directed /\ E[j][1] = y /\ E[j][2] = x

\* G has an edge from x to y that carries the label lab
HasLabelledEdge(E, directed, x, y, lab) ==
    \E j \in DOMAIN E : /\ E[j][3] = lab
                        /\ \/ E[j][1] = x /\ E[j][2] = y
                           \/ ~directed /\ E[j][1] = y /\ E[j][2] = x

\* the generator gen maps every vertex of G into its own class
KeepsClasses(gen) ==
    \A i \in DOMAIN inp.partition :
        \A v \in inp.partition[i] \cap inp.V : GenMap(gen, v) \in inp.partition[i]

\* C5 as stated: every generator maps every edge of G to an edge of G with
\* the same label, and every vertex into its own colour class
C5_GeneratorsKeepLabels ==
    pc \in {"ag_search", "done"} =>
        \A k \in DOMAIN loc.gens :
            /\ \A j \in DOMAIN inp.E :
                  HasLabelledEdge(inp.E, inp.directed, GenMap(loc.gens[k], inp.E[j][1]),
                                  GenMap(loc.gens[k], inp.E[j][2]), inp.E[j][3])
            /\ KeepsClasses(loc.gens[k])

\* C5 as amended: every generator maps every edge of G to an edge of G,
\* whatever the labels of the two edges, and every vertex into its own
\* colour class
C5_GeneratorsKeepEdges ==
    pc \in {"ag_search", "done"} =>
        \A k \in DOMAIN loc.gens :
            /\ \A j \in DOMAIN inp.E :
                  HasEdge(inp.E, inp.directed, GenMap(loc.gens[k], inp.E[j][1]),
                          GenMap(loc.gens[k], inp.E[j][2]))
            /\ KeepsClasses(loc.gens[k])

\* a generator that moves a vertex has been returned for a graph with two
\* labels and two colour classes
C5_Witness ==
    /\ pc = "done"
    /\ Len(inp.partition) > 1
    /\ Cardinality({inp.E[j][3] : j \in DOMAIN inp.E}) > 1
    /\ \E k \in DOMAIN ret.gens : \E v \in inp.V : GenMap(ret.gens[k], v) # v

\* the generator appended last
LastGen == loc.gens[Len(loc.gens)]

\* the index of the vertex v
IndexOfVertex(v) == loc.vert2int[v]

PlacesOf(gen, v) ==
    {q \in UNION {{<<k, j>> : j \in DOMAIN gen[k]} : k \in DOMAIN gen} : gen[q[1]][q[2]] = v}

\* the generator gen lists the permutation p of the indices [0, n) as
\* cycles of vertices: every index is in one place of one cycle, a cycle
\* starts at its smallest index, every element is followed by its image
\* and the last one maps back to the first
CyclesOf(gen, p, n, int_to_vertex, vertex_to_int) ==
    /\ \A v \in 0..(n - 1) : Cardinality(PlacesOf(gen, int_to_vertex[v + 1])) = 1
    /\ \A k \in DOMAIN gen :
          /\ gen[k] # <<>>
          /\ \A j \in DOMAIN gen[k] :
                /\ gen[k][j] \in DOMAIN vertex_to_int
                /\ vertex_to_int[gen[k][1]] <= vertex_to_int[gen[k][j]]
                /\ j < Len(gen[k]) => vertex_to_int[gen[k][j + 1]] = p[vertex_to_int[gen[k][j]]]
          /\ p[vertex_to_int[gen[k][Len(gen[k])]]] = vertex_to_int[gen[k][1]]
    /\ \A v \in 0..(n - 1) : GenMap(gen, int_to_vertex[v + 1]) = int_to_vertex[p[v] + 1]

\* C18: a call of add_gen with the permutation aut appends one generator
\* to the generators and leaves the earlier ones as they were; the cycles
\* of that generator list aut: every index once, every cycle from its
\* smallest index on, every element followed by its image
C18_OneGeneratorOfCycles ==
    [][(pc = "ag_search" /\ pc' = "ag_search") =>
          /\ Len(loc'.gens) = Len(loc.gens) + 1
          /\ SubSeq(loc'.gens, 1, Len(loc.gens)) = loc.gens
          /\ CyclesOf(loc'.gens[Len(loc'.gens)], aut', bg.n, loc.int2vert, loc.vert2int)]_vars

\* a second generator has been appended, for a permutation with a cycle of
\* three indices that does not list them in ascending order
C18_Witness ==
    /\ pc = "ag_search" /\ Len(loc.gens) = 2
    /\ \E k \in DOMAIN LastGen :
          /\ Len(LastGen[k]) = 3
          /\ IndexOfVertex(LastGen[k][2]) > IndexOfVertex(LastGen[k][3])
          /\ aut[IndexOfVertex(LastGen[k][1])] = IndexOfVertex(LastGen[k][2])

(***************************************************************************)
(* The vertex count of the engine graph for large inputs.  The calls of    *)
(* canonical_form_from_edge_list with a vertex count near the limits of a  *)
(* C int are followed up to the allocation of the engine graph; bg holds   *)
(* the vertex count handed to the constructor.                             *)
(***************************************************************************)
\* the vertex counts of these calls
CapVnrs ==
    {-1, 0, 1, 3, Half - 1, (Half \div 2) * (Half \div 8), (Half \div 2) * (Half \div 4),
     (Half \div 2) * (Half \div 4) + 1, IntMax \div 3, IntMax \div 3 + 1, IntMax}

\* assert <unsigned long>(Vnr) <= <unsigned long>LONG_MAX
CAP_Assert ==
    /\ pc = "cap_assert"
    /\ pc' = IF el.Vnr < 0 THEN "raised" ELSE "cap_alloc"
    /\ UNCHANGED <<inp, loc, el, bg, aut, heap, ret>>

\* g = new Graph(Vnr) or new Graph(Vnr*logLnr), and the same for a Digraph
CAP_Alloc ==
    /\ pc = "cap_alloc"
    /\ bg' = [n |-> VertexCount(el.Vnr, el.Lnr)]
    /\ heap' = heap \cup {IF el.directed THEN "Digraph" ELSE "Graph"}
    /\ pc' = "allocated"
    /\ UNCHANGED <<inp, loc, el, aut, ret>>

InitCap ==
    /\ pc = "cap_assert"
    /\ inp = [op |-> "canonical_form_from_edge_list"]
    /\ \E Vnr \in CapVnrs, Lnr \in 0..MaxCapLnr, directed \in BOOLEAN :
          el = [Vnr |-> Vnr, Vout |-> <<>>, Vin |-> <<>>, Lnr |-> Lnr, labels |-> <<>>,
                partition |-> <<>>, directed |-> directed, certificate |-> FALSE,
                new_edges |-> Nothing, relabel |-> Nothing]
    /\ loc = Nothing
    /\ bg = Nothing
    /\ aut = Nothing
    /\ heap = {}
    /\ ret = Nothing

NextCap ==
    \/ CAP_Assert
    \/ CAP_Alloc

SpecCap == InitCap /\ [][NextCap]_vars

\* the number of vertices the call asks the engine for: Vnr with one
\* label, Vnr*b otherwise, as the pair <<high part, low 16 bits>>
Requested(a) == IF a.Lnr = 1 THEN WideMul(a.Vnr, 1) ELSE WideMul(a.Vnr, LogLnr(a.Lnr))

\* C9: an engine graph is allocated only when the requested number of
\* vertices fits a signed and an unsigned 32-bit integer
C9_NoWrappedVertexCount ==
    heap # {} => Requested(el)[1] < (Half \div 2)

\* C14: with L > 1 labels the builders use b layers with
\* 2^(b-1) <= L < 2^b, and the encoded value lab + 1 of every label index
\* lab of [1, L) is below 2^b, so that its binary digits 1 all lie in the
\* layers 0..b-1
C14_LayerCount ==
    (pc = "allocated" /\ el.Lnr > 1) =>
        LET b == LogLnr(el.Lnr)
        IN /\ FitsInt(el.Vnr, b) => bg.n = el.Vnr * b
           /\ 2 ^ (b - 1) <= el.Lnr /\ el.Lnr < 2 ^ b
           /\ \A lab \in 1..(el.Lnr - 1) :
                 /\ lab + 1 < 2 ^ b
                 /\ \A k \in b..(MaxCapLnr + 1) : ((lab + 1) \div (2 ^ k)) % 2 = 0

\* a graph has been allocated for a label count that is a power of two
C14_Witness ==
    /\ pc = "allocated" /\ el.Lnr > 2 /\ el.Vnr = 3
    /\ el.Lnr = 2 ^ (LogLnr(el.Lnr) - 1)
    /\ bg.n = 3 * LogLnr(el.Lnr)

====
